---- MODULE Spec2Model ----
(***************************************************************************)
(* Model of the task manager: the task table (models.py), the CRUD         *)
(* endpoints (main.py) and the five skills (skills/*.py, helper/cleanup.py)*)
(* over it.  Time is in seconds since an arbitrary epoch, as the           *)
(* total_seconds() arithmetic of the skills has it.  The store is SQLite   *)
(* (tests/test_skills.py creates the engine as "sqlite://"): its rowid,    *)
(* LIKE and NULL-ordering rules are the ones modelled.                     *)
(*                                                                         *)
(* created_at is written once by create_task and read by no operation; it  *)
(* is left out of the task record.                                         *)
(***************************************************************************)
EXTENDS Integers, Sequences, FiniteSets

VARIABLES tasks, now, last

vars == <<tasks, now, last>>

(***************************************************************************)
(* Bounds of the model.                                                    *)
(***************************************************************************)
\* largest id the store hands out (so at most MaxId rows)
MaxId == 2
\* the clock stops after MaxTicks steps of TickStep
MaxTicks == 2

(***************************************************************************)
(* Program constants.                                                      *)
(***************************************************************************)
\* priority.py:26  if diff < 86400
DaySeconds == 86400
\* priority.py:28  elif diff < 259200
ThreeDaySeconds == 259200
\* priority.py:30  elif diff < 604800
WeekSeconds == 604800
\* daily_brief.py:10  today_end = now + timedelta(days=1), in seconds
TodayWindow == 86400
\* cleanup.py:24  timedelta.days: whole days of 86400 seconds
TimedeltaDay == 86400
\* models.py:10  priority: int = Field(default=1, ge=1, le=5)
MinPriority == 1
MaxPriority == 5

TickStep == DaySeconds \div 2

(***************************************************************************)
(* Optional[...] values: None, or a one-element tuple holding the value.   *)
(***************************************************************************)
None == <<>>
Some(x) == <<x>>
IsSome(o) == Len(o) = 1
Get(o) == o[1]

Max(S) == CHOOSE x \in S : \A y \in S : y <= x

(***************************************************************************)
(* The store.  ids: INTEGER PRIMARY KEY without AUTOINCREMENT, so a new    *)
(* row gets the largest id in the table plus one.                          *)
(*                                                                         *)
(* last is what the most recent skill call returned (op "none" after any   *)
(* other request): count for the two counting skills, rows for the ids of  *)
(* the query result the skill iterated or returned, text for the rendered  *)
(* brief or report, arg for the call's argument.                           *)
(***************************************************************************)
Ids == DOMAIN tasks

NewId(ts) == IF DOMAIN ts = {} THEN 1 ELSE Max(DOMAIN ts) + 1

Idle == [op |-> "none", count |-> 0, rows |-> <<>>, text |-> <<>>, arg |-> <<>>]

\* the clock readings of the model
Times == {k * TickStep : k \in 0..MaxTicks}

\* an empty table, the service started at time 0
Init ==
    /\ tasks = <<>>
    /\ now = 0
    /\ last = Idle

\* an empty table, the service answering at any one clock reading
InitAt ==
    /\ tasks = <<>>
    /\ now \in Times
    /\ last = Idle

\* the wall clock moves on between requests
Tick ==
    /\ now + TickStep <= MaxTicks * TickStep
    /\ now' = now + TickStep
    /\ last' = Idle
    /\ UNCHANGED tasks

(***************************************************************************)
(* CRUD endpoints (main.py).                                               *)
(***************************************************************************)
\* TaskCreate validation: priority has ge=1, le=5 (models.py:10)
ValidCreate(priority) == priority >= MinPriority /\ priority <= MaxPriority

NewTask(title, description, status, due_date, priority) ==
    [title |-> title, description |-> description, status |-> status,
     due_date |-> due_date, priority |-> priority, updated_at |-> now]

create_task(title, description, status, due_date, priority) ==
    /\ ValidCreate(priority)
    /\ NewId(tasks) <= MaxId
    /\ tasks' = [i \in Ids \cup {NewId(tasks)} |->
                    IF i \in Ids THEN tasks[i]
                    ELSE NewTask(title, description, status, due_date, priority)]
    /\ last' = Idle
    /\ UNCHANGED now

\* model_dump(exclude_unset=True) then setattr per key: patch is a function
\* from the supplied field names to their values
ApplyPatch(task, patch) ==
    [f \in DOMAIN task |-> IF f \in DOMAIN patch THEN patch[f] ELSE task[f]]

Touch(task, t) == [task EXCEPT !.updated_at = t]

update_task(task_id, patch) ==
    /\ task_id \in Ids
    /\ tasks' = [tasks EXCEPT ![task_id] = Touch(ApplyPatch(tasks[task_id], patch), now)]
    /\ last' = Idle
    /\ UNCHANGED now

delete_task(task_id) ==
    /\ task_id \in Ids
    /\ tasks' = [i \in Ids \ {task_id} |-> tasks[i]]
    /\ last' = Idle
    /\ UNCHANGED now

(***************************************************************************)
(* Prioritization skill (skills/priority.py).                              *)
(***************************************************************************)
\* a band that only ever raises the stored priority
NewPriorityRaiseOnly(priority, diff) ==
    LET band == IF diff < DaySeconds THEN 5
                ELSE IF diff < ThreeDaySeconds THEN 4
                ELSE IF diff < WeekSeconds THEN 3
                ELSE priority
    IN IF band > priority THEN band ELSE priority

\* a band that boosts the stored priority by one step instead of setting it
NewPriorityBoost(priority, diff) ==
    IF diff < WeekSeconds /\ priority < MaxPriority THEN priority + 1 ELSE priority

\* lines 25-31: the band of diff = due_date - now, else the stored priority
NewPriority(priority, diff) ==
    IF diff < DaySeconds THEN 5
    ELSE IF diff < ThreeDaySeconds THEN 4
    ELSE IF diff < WeekSeconds THEN 3
    ELSE priority

\* the query without its status filter
PrioritizableAnyStatus(task) == IsSome(task.due_date)

\* line 12 (status != "completed") and line 17 (if task.due_date)
Prioritizable(task) == task.status # "completed" /\ IsSome(task.due_date)

\* lines 33-35: only the priority is assigned
SetPriority(task, p) == [task EXCEPT !.priority = p]

PrioritizeTask(task, t) ==
    IF Prioritizable(task)
    THEN SetPriority(task, NewPriority(task.priority, Get(task.due_date) - t))
    ELSE task

\* lines 33-36: updated_count counts the tasks whose priority was assigned
UpdatedCount(ts, t) ==
    Cardinality({i \in DOMAIN ts : PrioritizeTask(ts[i], t).priority # ts[i].priority})

PrioritizedStore(ts, t) == [i \in DOMAIN ts |-> PrioritizeTask(ts[i], t)]

auto_prioritize_tasks ==
    /\ tasks' = PrioritizedStore(tasks, now)
    /\ last' = [Idle EXCEPT !.op = "prioritize", !.count = UpdatedCount(tasks, now)]
    /\ UNCHANGED now

(***************************************************************************)
(* Cleanup skill (helper/cleanup.py).                                      *)
(***************************************************************************)
\* the age rounded to the nearest day instead of cut to whole days
AgeDaysRounded(task, t) == (t - task.updated_at + (TimedeltaDay \div 2)) \div TimedeltaDay

\* line 24: (now - updated_at).days, the floor of the difference in days
AgeDays(task, t) == (t - task.updated_at) \div TimedeltaDay

\* "more than days_old days" instead of "at least"
ArchivableStrict(task, t, days_old) ==
    task.status = "completed" /\ AgeDays(task, t) > days_old

\* lines 13 and 25
Archivable(task, t, days_old) ==
    task.status = "completed" /\ AgeDays(task, t) >= days_old

archive_completed_tasks(days_old) ==
    LET gone == {i \in Ids : Archivable(tasks[i], now, days_old)}
    IN /\ tasks' = [i \in Ids \ gone |-> tasks[i]]
       /\ last' = [Idle EXCEPT !.op = "cleanup", !.count = Cardinality(gone),
                                !.arg = <<days_old>>]
       /\ UNCHANGED now

(***************************************************************************)
(* Query results.  A SELECT without ORDER BY returns the rows in rowid     *)
(* order; with ORDER BY, any order of the selected rows that respects the  *)
(* ordering terms (rows that tie may come either way round).               *)
(***************************************************************************)
RECURSIVE RowidOrder(_)
RowidOrder(S) ==
    IF S = {} THEN <<>>
    ELSE LET m == CHOOSE x \in S : \A y \in S : x <= y
         IN <<m>> \o RowidOrder(S \ {m})

Arrangements(S) ==
    {r \in [1..Cardinality(S) -> S] : \A i, j \in 1..Cardinality(S) : i # j => r[i] # r[j]}

(***************************************************************************)
(* Search skill (skills/search.py).                                        *)
(* Strings are tuples of one-character strings.  Column.contains(q)        *)
(* compiles to  column LIKE '%' || q || '%'  with no escape character, and *)
(* SQLite's LIKE treats % and _ in the pattern as wildcards and compares   *)
(* ASCII letters without regard to case.                                   *)
(***************************************************************************)
Lower(c) ==
    CASE c = "B" -> "b" [] c = "M" -> "m" [] c = "W" -> "w" [] c = "F" -> "f"
      [] OTHER -> c

RECURSIVE Like(_, _)
Like(str, pattern) ==
    IF pattern = <<>> THEN str = <<>>
    ELSE IF Head(pattern) = "%"
         THEN Like(str, Tail(pattern)) \/ (str # <<>> /\ Like(Tail(str), pattern))
    ELSE IF str = <<>> THEN FALSE
    ELSE IF Head(pattern) = "_" THEN Like(Tail(str), Tail(pattern))
    ELSE Lower(Head(str)) = Lower(Head(pattern)) /\ Like(Tail(str), Tail(pattern))

\* a NULL column makes the LIKE NULL, which the WHERE clause treats as false
ColumnContains(column, query) ==
    IsSome(column) /\ Like(Get(column), <<"%">> \o query \o <<"%">>)

\* lines 8-13: or_(Task.title.contains(query), Task.description.contains(query))
SearchMatches(task, query) ==
    \/ ColumnContains(Some(task.title), query)
    \/ ColumnContains(task.description, query)

advanced_search(query) ==
    /\ last' = [Idle EXCEPT !.op = "search", !.arg = <<query>>,
                  !.rows = RowidOrder({i \in Ids : SearchMatches(tasks[i], query)})]
    /\ UNCHANGED <<tasks, now>>

(***************************************************************************)
(* Daily brief skill (skills/daily_brief.py).                              *)
(***************************************************************************)
\* the window without its last instant
BriefSelectedStrict(task, t) ==
    /\ task.status # "completed"
    /\ IsSome(task.due_date)
    /\ Get(task.due_date) < t + TodayWindow

\* lines 12-15: status != "completed" and due_date <= today_end (NULL fails)
BriefSelected(task, t) ==
    /\ task.status # "completed"
    /\ IsSome(task.due_date)
    /\ Get(task.due_date) <= t + TodayWindow

\* line 15: order_by(Task.due_date)
BriefBefore(a, b) == Get(a.due_date) <= Get(b.due_date)

\* line 24
DueStr(task, t) ==
    IF IsSome(task.due_date) /\ Get(task.due_date) < t THEN "Overdue!" ELSE "Due today"

\* line 25: "- [priority] title (due_str)"
BriefLine(task, t) ==
    [priority |-> task.priority, title |-> task.title, due_str |-> DueStr(task, t)]

\* lines 19-27: the fixed sentence, or the header with len(tasks) and the lines
BriefText(ts, rows, t) ==
    IF rows = <<>>
    THEN [head |-> "You're all caught up! No tasks due today.", count |-> 0, lines |-> <<>>]
    ELSE [head |-> "Good morning! You have {count} tasks needing attention today:",
          count |-> Len(rows),
          lines |-> [k \in 1..Len(rows) |-> BriefLine(ts[rows[k]], t)]]

get_daily_brief ==
    \E rows \in Arrangements({i \in Ids : BriefSelected(tasks[i], now)}) :
        /\ \A i, j \in 1..Len(rows) : i < j => BriefBefore(tasks[rows[i]], tasks[rows[j]])
        /\ last' = [Idle EXCEPT !.op = "brief", !.rows = rows,
                                 !.text = BriefText(tasks, rows, now)]
        /\ UNCHANGED <<tasks, now>>

(***************************************************************************)
(* Report skill (skills/reporter.py).                                      *)
(***************************************************************************)
\* due_date ASC in SQLite: NULL sorts before every value
DueAscending(a, b) ==
    \/ ~IsSome(a)
    \/ IsSome(a) /\ IsSome(b) /\ Get(a) <= Get(b)

\* line 8: order_by(Task.priority.desc(), Task.due_date.asc())
ReportBefore(a, b) ==
    \/ a.priority > b.priority
    \/ a.priority = b.priority /\ DueAscending(a.due_date, b.due_date)

\* lines 14-19 and 25
StatusEmoji(status) ==
    CASE status = "todo" -> "calendar"
      [] status = "in_progress" -> "construction"
      [] status = "completed" -> "check"
      [] status = "overdue" -> "siren"
      [] OTHER -> "memo"

\* line 26: strftime("%Y-%m-%d %H:%M") drops the seconds
DueText(due_date) ==
    IF IsSome(due_date) THEN Some(Get(due_date) - (Get(due_date) % 60)) ELSE <<"No deadline">>

\* line 27
ReportRow(task) ==
    [emoji |-> StatusEmoji(task.status), status |-> task.status, stars |-> task.priority,
     title |-> task.title, due |-> DueText(task.due_date)]

generate_markdown_report ==
    \E rows \in Arrangements(Ids) :
        /\ \A i, j \in 1..Len(rows) : i < j => ReportBefore(tasks[rows[i]], tasks[rows[j]])
        /\ last' = [Idle EXCEPT !.op = "report", !.rows = rows,
                                 !.text = [k \in 1..Len(rows) |-> ReportRow(tasks[rows[k]])]]
        /\ UNCHANGED <<tasks, now>>

(***************************************************************************)
(* Requests.  Each specification draws the clients' inputs from small sets *)
(* that vary the fields its operations read.                               *)
(***************************************************************************)
BuyMilk == <<"B", "u", "y", " ", "M", "i", "l", "k">>
Work == <<"W", "o", "r", "k">>
FromTheStore == <<"F", "r", "o", "m">>

Statuses == {"todo", "completed"}

\* due dates on the band edges of the prioritization skill
DueDates == {None, Some(TickStep), Some(DaySeconds), Some(ThreeDaySeconds), Some(WeekSeconds)}

\* due dates around the daily brief's window
NearDueDates == {None, Some(0), Some(2 * TickStep), Some(3 * TickStep)}

DaysOld == {0, 1, 2}

CreateAny(titles, descriptions, statuses, due_dates, priorities) ==
    \E title \in titles, description \in descriptions, status \in statuses,
       due_date \in due_dates, priority \in priorities :
        create_task(title, description, status, due_date, priority)

UpdateAny(patches) ==
    \E task_id \in Ids, patch \in patches : update_task(task_id, patch)

DeleteAny == \E task_id \in Ids : delete_task(task_id)

CleanupAny == \E days_old \in DaysOld : archive_completed_tasks(days_old)

SearchAny(queries) == \E query \in queries : advanced_search(query)

(***************************************************************************)
(* Spec: every operation of the service.                                   *)
(***************************************************************************)
Create == CreateAny({Work}, {None}, Statuses, {None, Some(DaySeconds)}, {1, 3, 6})

Update == UpdateAny({[priority |-> 0], [priority |-> 9], [status |-> "completed"],
                     [status |-> "todo", due_date |-> None]})

Next ==
    \/ Tick
    \/ Create
    \/ Update
    \/ DeleteAny
    \/ auto_prioritize_tasks
    \/ CleanupAny
    \/ SearchAny({Work})
    \/ get_daily_brief
    \/ generate_markdown_report

Spec == Init /\ [][Next]_vars

(***************************************************************************)
(* SpecPrio: tasks of every status, priority and due-date band, and the    *)
(* prioritization skill called at one clock reading.                       *)
(***************************************************************************)
CreatePrio == CreateAny({Work}, {None}, Statuses, DueDates, {1, 3, 5})

UpdatePrio == UpdateAny({[status |-> "completed"], [due_date |-> None]})

NextPrio ==
    \/ CreatePrio
    \/ UpdatePrio
    \/ DeleteAny
    \/ auto_prioritize_tasks

SpecPrio == InitAt /\ [][NextPrio]_vars

(***************************************************************************)
(* SpecCleanup: tasks completed at different times, the clock and the      *)
(* cleanup skill.                                                          *)
(***************************************************************************)
CreateCleanup == CreateAny({Work}, {None}, Statuses, {None}, {1})

UpdateCleanup == UpdateAny({[status |-> "completed"], [status |-> "todo"]})

NextCleanup ==
    \/ Tick
    \/ CreateCleanup
    \/ UpdateCleanup
    \/ CleanupAny

SpecCleanup == Init /\ [][NextCleanup]_vars

(***************************************************************************)
(* SpecBrief: tasks due around the brief's window, and the daily brief     *)
(* asked for at one clock reading.                                         *)
(***************************************************************************)
CreateBrief == CreateAny({Work, BuyMilk}, {None}, Statuses, NearDueDates, {1, 3})

NextBrief ==
    \/ CreateBrief
    \/ DeleteAny
    \/ get_daily_brief

SpecBrief == InitAt /\ [][NextBrief]_vars

(***************************************************************************)
(* SpecReport: tasks of different priorities with and without due dates,   *)
(* and the report.                                                         *)
(***************************************************************************)
CreateReport == CreateAny({Work, BuyMilk}, {None}, Statuses,
                          {None, Some(DaySeconds), Some(ThreeDaySeconds)}, {1, 3})

NextReport ==
    \/ CreateReport
    \/ DeleteAny
    \/ generate_markdown_report

SpecReport == Init /\ [][NextReport]_vars

(***************************************************************************)
(* SpecSearch: titles and descriptions, and the search skill.              *)
(***************************************************************************)
Queries == {<<>>, <<"M", "i", "l", "k">>, <<"m", "i", "l", "k">>, <<"W", "_", "r", "k">>,
            <<"%">>, <<"s", "t", "o", "r", "e">>, <<"r", "o">>}

CreateSearch == CreateAny({Work, BuyMilk}, {None, Some(FromTheStore), Some(Work)},
                          {"todo"}, {None}, {1})

UpdateSearch == UpdateAny({[title |-> BuyMilk], [description |-> None]})

NextSearch ==
    \/ CreateSearch
    \/ UpdateSearch
    \/ DeleteAny
    \/ SearchAny(Queries)

SpecSearch == Init /\ [][NextSearch]_vars

(***************************************************************************)
(* Properties.                                                             *)
(***************************************************************************)
Range(f) == {f[k] : k \in DOMAIN f}

\* q occurs in str as a contiguous, case-sensitive run of characters
Contains(str, q) ==
    \E k \in 0..(Len(str) - Len(q)) : \A j \in 1..Len(q) : str[k + j] = q[j]

\* C1: right after a prioritize call, every task that is not completed and has
\* a due date carries the priority of its band: 5 when due_date - now < 24h
\* (overdue included), 4 from 24h up to 3 days, 3 from 3 days up to 7 days.
C1_BandPriority ==
    last.op = "prioritize" =>
        \A i \in Ids :
            (tasks[i].status # "completed" /\ IsSome(tasks[i].due_date)) =>
                LET diff == Get(tasks[i].due_date) - now
                IN /\ (diff < DaySeconds) => tasks[i].priority = 5
                   /\ (DaySeconds <= diff /\ diff < ThreeDaySeconds) => tasks[i].priority = 4
                   /\ (ThreeDaySeconds <= diff /\ diff < WeekSeconds) => tasks[i].priority = 3

\* a call that changed two tasks: an overdue one now at 5 and one in the
\* 3-to-7-day band now at 3
C1_Witness ==
    /\ last.op = "prioritize"
    /\ last.count = 2
    /\ \E i, j \in Ids :
        /\ tasks[i].status # "completed" /\ IsSome(tasks[i].due_date)
        /\ Get(tasks[i].due_date) - now < 0
        /\ tasks[i].priority = 5
        /\ tasks[j].status # "completed" /\ IsSome(tasks[j].due_date)
        /\ Get(tasks[j].due_date) - now >= ThreeDaySeconds
        /\ Get(tasks[j].due_date) - now < WeekSeconds
        /\ tasks[j].priority = 3

\* C2: every stored task has its priority in [1,5], whatever requests came.
C2_PriorityInRange ==
    \A i \in Ids : tasks[i].priority >= MinPriority /\ tasks[i].priority <= MaxPriority

\* C3: a cleanup call with days_old = 0 removes every completed task and no
\* other: the rows left are exactly the rows that were not completed, unchanged.
C3_CleanupZero ==
    [][(last'.op = "cleanup" /\ last'.arg = <<0>>) =>
        /\ DOMAIN tasks' = {i \in DOMAIN tasks : tasks[i].status # "completed"}
        /\ \A i \in DOMAIN tasks' : tasks'[i] = tasks[i]]_vars

\* cleanup(0) deleted a task and left one that is not completed
C3_Witness ==
    /\ last.op = "cleanup"
    /\ last.arg = <<0>>
    /\ last.count = 1
    /\ \E i \in Ids : tasks[i].status = "todo"

\* C4: a cleanup call removes exactly the completed tasks whose updated_at lies
\* at least days_old whole days before now, leaves the others as they were and
\* returns the number of rows it removed.
C4_CleanupExact ==
    [][last'.op = "cleanup" =>
        LET days_old == last'.arg[1]
            old == {i \in DOMAIN tasks :
                       /\ tasks[i].status = "completed"
                       /\ now - tasks[i].updated_at >= days_old * TimedeltaDay}
        IN /\ DOMAIN tasks' = DOMAIN tasks \ old
           /\ \A i \in DOMAIN tasks' : tasks'[i] = tasks[i]
           /\ last'.count = Cardinality(old)]_vars

\* cleanup(1) deleted one task and kept a completed one that is half a day old
C4_Witness ==
    /\ last.op = "cleanup"
    /\ last.arg = <<1>>
    /\ last.count = 1
    /\ \E i \in Ids :
        /\ tasks[i].status = "completed"
        /\ now - tasks[i].updated_at > 0
        /\ now - tasks[i].updated_at < TimedeltaDay

\* C5: a prioritize call that directly follows another one (same clock reading,
\* nothing in between) returns 0 and leaves the table as it was.
C5_Idempotent ==
    [][(last.op = "prioritize" /\ last'.op = "prioritize") =>
        (last'.count = 0 /\ tasks' = tasks)]_vars

\* a call that returned 0 over a task that sits in a band
C5_Witness ==
    /\ last.op = "prioritize"
    /\ last.count = 0
    /\ Cardinality(Ids) = 2
    /\ \A i \in Ids :
        /\ tasks[i].status # "completed" /\ IsSome(tasks[i].due_date)
        /\ Get(tasks[i].due_date) - now < WeekSeconds

\* C6: every task whose priority a prioritize call changes has its updated_at
\* set to the time of that call.
C6_UpdatedAtRefreshed ==
    [][last'.op = "prioritize" =>
        \A i \in DOMAIN tasks :
            tasks'[i].priority # tasks[i].priority => tasks'[i].updated_at = now]_vars

\* C7: the brief is the fixed sentence exactly when no task is both not
\* completed and due by now + 24h; otherwise its header counts those tasks and
\* its lines are those tasks, one each, by ascending due date, labelled
\* "Overdue!" when due before now and "Due today" otherwise.
C7_Brief ==
    last.op = "brief" =>
        LET due == {i \in Ids :
                       /\ tasks[i].status # "completed"
                       /\ tasks[i].due_date # None
                       /\ Get(tasks[i].due_date) <= now + TodayWindow}
            text == last.text
        IN /\ (text.head = "You're all caught up! No tasks due today.") <=> (due = {})
           /\ (due = {}) => text.lines = <<>>
           /\ (due # {}) =>
                /\ text.head = "Good morning! You have {count} tasks needing attention today:"
                /\ text.count = Cardinality(due)
                /\ Len(text.lines) = Cardinality(due)
                /\ Len(last.rows) = Cardinality(due)
                /\ Range(last.rows) = due
                /\ \A k \in 1..Len(text.lines) :
                    /\ text.lines[k].title = tasks[last.rows[k]].title
                    /\ text.lines[k].priority = tasks[last.rows[k]].priority
                    /\ text.lines[k].due_str =
                          IF Get(tasks[last.rows[k]].due_date) < now
                          THEN "Overdue!" ELSE "Due today"
                    /\ (k > 1) => Get(tasks[last.rows[k - 1]].due_date)
                                    <= Get(tasks[last.rows[k]].due_date)

\* a brief of two lines: an overdue task, then one due at the very end of the
\* 24h window
C7_Witness ==
    /\ last.op = "brief"
    /\ last.text.count = 2
    /\ last.text.lines[1].due_str = "Overdue!"
    /\ last.text.lines[2].due_str = "Due today"
    /\ tasks[last.rows[2]].due_date = Some(now + TodayWindow)

\* C8: search returns exactly the tasks whose title or description holds the
\* query as a case-sensitive substring.
C8_ExactSubstring ==
    last.op = "search" =>
        Range(last.rows) =
            {i \in Ids :
                \/ Contains(tasks[i].title, last.arg[1])
                \/ (tasks[i].description # None
                    /\ Contains(Get(tasks[i].description), last.arg[1]))}

\* C9: the report has one row per stored task, by priority descending and,
\* within a priority, by due date ascending with the tasks without a due date
\* after all those with one.
C9_ReportOrder ==
    last.op = "report" =>
        /\ Len(last.rows) = Cardinality(Ids)
        /\ Range(last.rows) = Ids
        /\ \A k \in 1..Len(last.rows) : \A m \in 1..Len(last.rows) :
            k < m =>
                LET a == tasks[last.rows[k]]
                    b == tasks[last.rows[m]]
                IN \/ a.priority > b.priority
                   \/ /\ a.priority = b.priority
                      /\ \/ b.due_date = None
                         \/ /\ a.due_date # None
                            /\ Get(a.due_date) <= Get(b.due_date)

\* C10: a prioritize call creates and deletes nothing, changes no field but
\* the priority, keeps the priority of every task that has no due date,
\* is due 7 days or more from now, or is completed, and returns the number of
\* tasks whose priority it changed.
C10_Frame ==
    [][last'.op = "prioritize" =>
        /\ DOMAIN tasks' = DOMAIN tasks
        /\ \A i \in DOMAIN tasks :
            /\ tasks'[i] = [tasks[i] EXCEPT !.priority = tasks'[i].priority]
            /\ (\/ tasks[i].due_date = None
                \/ tasks[i].status = "completed"
                \/ Get(tasks[i].due_date) - now >= WeekSeconds)
               => tasks'[i] = tasks[i]
        /\ last'.count =
              Cardinality({i \in DOMAIN tasks : tasks'[i].priority # tasks[i].priority})]_vars

\* a call that changed one task and kept a completed task, due within the
\* day, at priority 1
C10_Witness ==
    /\ last.op = "prioritize"
    /\ last.count = 1
    /\ \E i \in Ids :
        /\ tasks[i].status = "completed"
        /\ IsSome(tasks[i].due_date)
        /\ Get(tasks[i].due_date) - now < DaySeconds
        /\ tasks[i].priority = 1

====
